---------------------------- MODULE Spec2Model ----------------------------
(***************************************************************************)
(* A model of the EPA rating program (src/main.py): the rating store       *)
(* epa_scores, the process-wide DEFAULT_EPA, the parameter schedule, the   *)
(* rating update, the prediction, and the control flow of main().          *)
(*                                                                         *)
(* Ratings are Python floats in the source.  The model computes with exact *)
(* rationals <<numerator, denominator>> in lowest terms (denominator > 0), *)
(* so every arithmetic identity checked here is one of real arithmetic.    *)
(***************************************************************************)
EXTENDS Integers, Sequences, FiniteSets, TLC

VARIABLES
    epa_scores,        \* dict team -> rating (a function on the teams present)
    DEFAULT_EPA,       \* the module-level default rating
    epa_dataframe,     \* rows [team_id, epa] built by update_dataframe
    events,            \* what the match source returns for each event code
    event_i,           \* main: number of event codes taken from the list
    matches,           \* main: the matches fetched for the current event
    loop_items,        \* main: what enumerate(sorted(matches)) still yields
    match,             \* process_match: the match being processed
    match_number,      \* the match number handed to process_match
    red_team_ids,      \* update_epa arguments of the last call
    blue_team_ids,
    red_actual_score,
    blue_actual_score,
    k_factor,
    margin,
    lineup,            \* the four team numbers predict_match_result was given
    prediction,        \* the dict predict_match_result returned
    printed,           \* the prediction lines main printed
    pc,                \* position of main; in the harness, the function called last
    ncalls             \* harness: number of calls made so far

vars == <<epa_scores, DEFAULT_EPA, epa_dataframe, events, event_i, matches,
          loop_items, match, match_number, red_team_ids, blue_team_ids,
          red_actual_score, blue_actual_score, k_factor, margin, lineup,
          prediction, printed, pc, ncalls>>

-----------------------------------------------------------------------------
(* Bounds of the model.                                                    *)

NumEvents == 2
MaxMatches == 3
MaxCalls == 3
MaxN == 120

-----------------------------------------------------------------------------
(* Exact rational arithmetic.                                              *)

Abs(x) == IF x < 0 THEN -x ELSE x

RECURSIVE GCD(_, _)
GCD(a, b) == IF b = 0 THEN a ELSE GCD(b, a % b)

Norm(n, d) ==
    LET s == IF d < 0 THEN -1 ELSE 1
        g == GCD(Abs(n), Abs(d))
    IN  <<(s * n) \div g, (s * d) \div g>>

R(n) == <<n, 1>>
Frac(n, d) == Norm(n, d)
RNeg(a) == <<-a[1], a[2]>>
RAdd(a, b) ==
    LET g == GCD(a[2], b[2])
        l == (a[2] \div g) * b[2]
    IN  Norm(a[1] * (l \div a[2]) + b[1] * (l \div b[2]), l)
RSub(a, b) == RAdd(a, RNeg(b))
RMul(a, b) ==
    LET g1 == GCD(Abs(a[1]), b[2])
        g2 == GCD(Abs(b[1]), a[2])
    IN  Norm((a[1] \div g1) * (b[1] \div g2), (a[2] \div g2) * (b[2] \div g1))
RDiv(a, b) == RMul(a, Norm(b[2], b[1]))
RLt(a, b) == RSub(a, b)[1] < 0
RLe(a, b) == RSub(a, b)[1] <= 0

RECURSIVE RSum(_)
RSum(s) == IF s = <<>> THEN R(0) ELSE RAdd(Head(s), RSum(Tail(s)))

-----------------------------------------------------------------------------
(* Parameter schedule.                                                     *)

calculate_k_factor(n) ==
    IF n <= 6 THEN Frac(1, 2)
    ELSE IF n <= 12 THEN RSub(Frac(1, 2), RMul(Frac(1, 30), R(n - 6)))
    ELSE Frac(3, 10)

(* Variant: the interpolation divides by 12, so the margin passes 1.        *)
calculate_margin_parameter_steep(n) ==
    IF n <= 12 THEN R(0)
    ELSE IF n <= 36 THEN Frac(n - 12, 12)
    ELSE R(1)

calculate_margin_parameter(n) ==
    IF n <= 12 THEN R(0)
    ELSE IF n <= 36 THEN Frac(n - 12, 24)
    ELSE R(1)

-----------------------------------------------------------------------------
(* Match records, as the match source returns them.  A key a match does    *)
(* not carry is simply not in the record's DOMAIN (dict.get with default). *)
(* A station is the sequence of its characters; a start time is a positive *)
(* number ordered as the ISO timestamp strings are, and the default ""     *)
(* of the sort key, smaller than every timestamp, is 0.                    *)

Red1 == <<"R", "e", "d", "1">>
Red2 == <<"R", "e", "d", "2">>
Blue1 == <<"B", "l", "u", "e", "1">>
Blue2 == <<"B", "l", "u", "e", "2">>

Slot(t, st) == [teamNumber |-> t, station |-> st]

MatchA ==
    [teams |-> <<Slot(1, Red1), Slot(2, Red2), Slot(3, Blue1), Slot(4, Blue2)>>,
     scoreRedFinal |-> 100, scoreBlueFinal |-> 50, actualStartTime |-> 2]
MatchB ==
    [teams |-> <<Slot(2, Blue1), Slot(1, Red1), Slot(4, Blue2), Slot(3, Red2)>>,
     scoreRedFinal |-> 20, scoreBlueFinal |-> 70, actualStartTime |-> 2]
MatchC ==
    [teams |-> <<Slot(1, Red1), Slot(2, Red2), Slot(1, Blue1), Slot(3, Blue2)>>,
     scoreRedFinal |-> 60, scoreBlueFinal |-> 40, actualStartTime |-> 1]
MatchD ==
    [teams |-> <<Slot(5, Red1), Slot(4, Blue1)>>, scoreBlueFinal |-> 30]

MatchPool == {MatchA, MatchB, MatchC, MatchD}

Teams == {1, 2, 3, 4, 5, 6}

Lineups == {<<1, 2, 3, 4>>, <<3, 4, 1, 2>>, <<1, 5, 5, 1>>, <<6, 2, 6, 3>>}

-----------------------------------------------------------------------------
(* The rating store.                                                       *)

EmptyDict == [t \in {} |-> R(0)]

Get(store, default, team) ==
    IF team \in DOMAIN store THEN store[team] ELSE default

(* Variant: the dict is rebound to a one-entry dict instead of one item    *)
(* being assigned.                                                         *)
Put_rebind(store, team, value) == [t \in {team} |-> value]

Put(store, team, value) ==
    [t \in DOMAIN store \cup {team} |-> IF t = team THEN value ELSE store[t]]

-----------------------------------------------------------------------------
(* Baseline estimator.                                                     *)

ScoreRed(m) == IF "scoreRedFinal" \in DOMAIN m THEN m.scoreRedFinal ELSE 0
ScoreBlue(m) == IF "scoreBlueFinal" \in DOMAIN m THEN m.scoreBlueFinal ELSE 0

RECURSIVE TotalScores(_)
TotalScores(ms) ==
    IF ms = <<>> THEN 0
    ELSE ScoreRed(Head(ms)) + ScoreBlue(Head(ms)) + TotalScores(Tail(ms))

calculate_default_epa(ms) ==
    LET total_scores == TotalScores(ms)
        total_teams == 4 * Len(ms)
    IN  IF total_teams > 0 THEN Frac(total_scores, total_teams) ELSE R(60)

-----------------------------------------------------------------------------
(* Rating update engine.                                                   *)

alliance_total(store, default, team_ids) ==
    RSum([i \in 1..Len(team_ids) |-> Get(store, default, team_ids[i])])

surprise_factor(own_score, own_total, m, other_score, other_total) ==
    RSub(RSub(own_score, own_total), RMul(m, RSub(other_score, other_total)))

(* Variant: the gain is k instead of k / (1 + m).                          *)
new_epa_plain_gain(old_epa, k, m, surprise, size) ==
    RAdd(old_epa, RDiv(RMul(k, surprise), R(size)))

new_epa(old_epa, k, m, surprise, size) ==
    RAdd(old_epa, RDiv(RMul(RDiv(k, RAdd(R(1), m)), surprise), R(size)))

(* One "for team in ..." loop of update_epa: the teams are taken in list   *)
(* order, and each iteration reads the store as the iterations before it   *)
(* left it.                                                                *)
RECURSIVE alliance_loop(_, _, _, _, _, _, _, _, _, _)
alliance_loop(store, default, team_ids, i, own_score, own_total, other_score, other_total, k, m) ==
    IF i > Len(team_ids) THEN store
    ELSE LET team == team_ids[i]
             old_epa == Get(store, default, team)
             s == surprise_factor(own_score, own_total, m, other_score, other_total)
             next == Put(store, team, new_epa(old_epa, k, m, s, Len(team_ids)))
         IN  alliance_loop(next, default, team_ids, i + 1, own_score, own_total, other_score, other_total, k, m)

update_epa(store, default, red, blue, red_score, blue_score, k, m) ==
    LET red_total_epa == alliance_total(store, default, red)
        blue_total_epa == alliance_total(store, default, blue)
        after_red == alliance_loop(store, default, red, 1, red_score, red_total_epa, blue_score, blue_total_epa, k, m)
    IN  alliance_loop(after_red, default, blue, 1, blue_score, blue_total_epa, red_score, red_total_epa, k, m)

startswith(s, prefix) ==
    Len(s) >= Len(prefix) /\ SubSeq(s, 1, Len(prefix)) = prefix

RECURSIVE TeamsOn(_, _)
TeamsOn(slots, prefix) ==
    IF slots = <<>> THEN <<>>
    ELSE IF startswith(Head(slots).station, prefix)
         THEN <<Head(slots).teamNumber>> \o TeamsOn(Tail(slots), prefix)
         ELSE TeamsOn(Tail(slots), prefix)

MatchTeams(m) == IF "teams" \in DOMAIN m THEN m.teams ELSE <<>>
RedTeamIds(m) == TeamsOn(MatchTeams(m), <<"R", "e", "d">>)
BlueTeamIds(m) == TeamsOn(MatchTeams(m), <<"B", "l", "u", "e">>)

process_match(store, default, m, n) ==
    update_epa(store, default, RedTeamIds(m), BlueTeamIds(m), R(ScoreRed(m)), R(ScoreBlue(m)), calculate_k_factor(n), calculate_margin_parameter(n))

-----------------------------------------------------------------------------
(* Prediction model.                                                       *)
(*                                                                         *)
(* 1 / (1 + 10 ** x) is irrational for most rational x, so it is kept in   *)
(* closed form: the record [ten_exp |-> x] stands for the real number      *)
(* 1 / (1 + 10^x).  Two facts of real arithmetic are used and no other:    *)
(* 1 - 1/(1 + 10^x) = 1/(1 + 10^(-x)), and x |-> 1/(1 + 10^x) is strictly  *)
(* decreasing, so 1/(1 + 10^x) < 1/(1 + 10^y) exactly when y < x.          *)

OneOverOnePlusTenTo(x) == [ten_exp |-> x]
OneMinus(p) == [ten_exp |-> RNeg(p.ten_exp)]
ProbLt(p, q) == RLt(q.ten_exp, p.ten_exp)

(* Variant: the reads are epa_scores.setdefault(team, DEFAULT_EPA), which  *)
(* inserts the default for a missing team.                                 *)
RECURSIVE StoreAfterPredict_setdefault(_, _, _)
StoreAfterPredict_setdefault(store, default, team_ids) ==
    IF team_ids = <<>> THEN store
    ELSE StoreAfterPredict_setdefault(
            IF Head(team_ids) \in DOMAIN store THEN store
            ELSE [t \in DOMAIN store \cup {Head(team_ids)} |-> IF t = Head(team_ids) THEN default ELSE store[t]],
            default, Tail(team_ids))

(* The rating store after the four epa_scores.get(team, DEFAULT_EPA) reads *)
(* of predict_match_result: dict.get returns the default for a missing key *)
(* and inserts nothing.                                                    *)
StoreAfterPredict(store, default, team_ids) == store

calculate_win_probability(red_epa_total, blue_epa_total) ==
    LET d == RSub(blue_epa_total, red_epa_total)
        blue_win_prob == OneOverOnePlusTenTo(RDiv(d, R(400)))
        red_win_prob == OneMinus(blue_win_prob)
    IN  [red_win_prob |-> red_win_prob, blue_win_prob |-> blue_win_prob]

predict_match_result(store, default, red_team1, red_team2, blue_team1, blue_team2) ==
    LET red_epa1 == Get(store, default, red_team1)
        red_epa2 == Get(store, default, red_team2)
        blue_epa1 == Get(store, default, blue_team1)
        blue_epa2 == Get(store, default, blue_team2)
        total_red_epa == RAdd(red_epa1, red_epa2)
        total_blue_epa == RAdd(blue_epa1, blue_epa2)
        predicted_margin == RSub(total_red_epa, total_blue_epa)
        win_probabilities == calculate_win_probability(total_red_epa, total_blue_epa)
    IN  [predicted_red_score |-> total_red_epa,
         predicted_blue_score |-> total_blue_epa,
         predicted_margin |-> predicted_margin,
         red_win_prob |-> win_probabilities.red_win_prob,
         blue_win_prob |-> win_probabilities.blue_win_prob,
         winner |-> IF RLt(R(0), predicted_margin) THEN "Red Alliance" ELSE "Blue Alliance"]

-----------------------------------------------------------------------------
(* Reporting.                                                              *)

(* f"{x:.2f}": x rounded to hundredths, a tie going to the even digit; the *)
(* printed text is represented by its number of hundredths.                *)
Format2f(x) ==
    LET q == (100 * x[1]) \div x[2]
        r == 100 * x[1] - q * x[2]
    IN  IF 2 * r > x[2] THEN q + 1
        ELSE IF 2 * r < x[2] THEN q
        ELSE IF q % 2 = 0 THEN q ELSE q + 1

(* The rows of the DataFrame; the model keeps them as a set, the order of  *)
(* the rows (insertion order of the dict) is not modelled.                 *)
DataFrameOf(store) == {[team_id |-> t, epa |-> store[t]] : t \in DOMAIN store}

(* The prediction lines of main.  The two probability lines are the        *)
(* percent rendering of red_win_prob and blue_win_prob and are left out.   *)
PredictionLines(p) ==
    [red_score |-> Format2f(p.predicted_blue_score),
     blue_score |-> Format2f(p.predicted_red_score),
     winner |-> p.winner]

-----------------------------------------------------------------------------
(* Schedule ordering.                                                      *)

StartTimeKey(m) == IF "actualStartTime" \in DOMAIN m THEN m.actualStartTime ELSE 0

(* sorted(..., key=...) is stable: an element goes after every element     *)
(* already placed whose key is not greater.                                *)
RECURSIVE InsertByKey(_, _)
InsertByKey(m, s) ==
    IF s = <<>> THEN <<m>>
    ELSE IF StartTimeKey(m) < StartTimeKey(Head(s)) THEN <<m>> \o s
    ELSE <<Head(s)>> \o InsertByKey(m, Tail(s))

RECURSIVE SortFrom(_, _)
SortFrom(ms, acc) ==
    IF ms = <<>> THEN acc ELSE SortFrom(Tail(ms), InsertByKey(Head(ms), acc))

(* Variant: the matches are left in input order.                           *)
sorted_input_order(ms) == ms

sorted(ms) == SortFrom(ms, <<>>)

enumerate(s, start) == [i \in 1..Len(s) |-> <<start + i - 1, s[i]>>]

(* Variant: enumerate without start=1 counts from 0.                       *)
MatchOrder_zero_based(ms) == enumerate(sorted(ms), 0)

MatchOrder(ms) == enumerate(sorted(ms), 1)

-----------------------------------------------------------------------------
(* Inputs.                                                                 *)

SeqsUpTo(S, n) == UNION {[1..k -> S] : k \in 0..n}

(* The non-decreasing cut points that split a sequence of the given length *)
(* into NumEvents consecutive events.                                      *)
Cuts(len) ==
    {c \in [0..NumEvents -> 0..len] :
        /\ c[0] = 0
        /\ c[NumEvents] = len
        /\ \A e \in 1..NumEvents : c[e - 1] <= c[e]}

(* Every list of NumEvents events holding at most MaxMatches matches in    *)
(* all, each match one of MatchPool.                                       *)
EventLists ==
    {[e \in 1..NumEvents |-> SubSeq(s, c[e - 1] + 1, c[e])] :
        <<s, c>> \in {sc \in SeqsUpTo(MatchPool, MaxMatches) \X UNION {Cuts(l) : l \in 0..MaxMatches} :
                         sc[2][NumEvents] = Len(sc[1])}}

AlliancePairs == {<<<<1, 2>>, <<3, 4>>>>, <<<<1, 2>>, <<2, 3>>>>, <<<<5, 5>>, <<4>>>>}
ScoresAndParameters == {<<R(100), R(50), Frac(1, 2), R(0)>>, <<R(0), R(0), Frac(3, 10), Frac(1, 2)>>}
MatchNumbers == {1, 24}
BaselineInputs == {<<>>, <<MatchA>>}

NoMatch == [teams |-> <<>>]
NoPrediction == [winner |-> "none"]
NoLines == [winner |-> "none"]

-----------------------------------------------------------------------------
(* State after the module is loaded.                                       *)

InitCommon ==
    /\ epa_scores = EmptyDict
    /\ DEFAULT_EPA = R(80)
    /\ epa_dataframe = {}
    /\ event_i = 0
    /\ matches = <<>>
    /\ loop_items = <<>>
    /\ match = NoMatch
    /\ match_number = 0
    /\ red_team_ids = <<>>
    /\ blue_team_ids = <<>>
    /\ red_actual_score = R(0)
    /\ blue_actual_score = R(0)
    /\ k_factor = R(0)
    /\ margin = R(0)
    /\ lineup = <<>>
    /\ prediction = NoPrediction
    /\ printed = NoLines
    /\ ncalls = 0

Init ==
    /\ InitCommon
    /\ events \in EventLists
    /\ pc = "event"

mainVars == <<events, event_i, matches, loop_items>>

HarnessPcs == {"harness", "update_epa", "process_match", "calculate_default_epa", "predict_match_result", "schedule"}
callVars == <<match, match_number, red_team_ids, blue_team_ids, red_actual_score, blue_actual_score, k_factor, margin>>
reportVars == <<epa_dataframe, lineup, prediction, printed>>

(* A call update_epa(red, blue, red_score, blue_score, k, m).              *)
Do_update_epa(red, blue, red_score, blue_score, k, m) ==
    /\ red_team_ids' = red
    /\ blue_team_ids' = blue
    /\ red_actual_score' = red_score
    /\ blue_actual_score' = blue_score
    /\ k_factor' = k
    /\ margin' = m
    /\ epa_scores' = update_epa(epa_scores, DEFAULT_EPA, red, blue, red_score, blue_score, k, m)

(* A call process_match(m, n).                                             *)
Do_process_match(m, n) ==
    /\ match' = m
    /\ match_number' = n
    /\ Do_update_epa(RedTeamIds(m), BlueTeamIds(m), R(ScoreRed(m)), R(ScoreBlue(m)), calculate_k_factor(n), calculate_margin_parameter(n))

-----------------------------------------------------------------------------
(* main().                                                                 *)

(* Variant: the store is emptied at the start of every event.              *)
StartEvent_reset ==
    /\ pc = "event"
    /\ event_i < Len(events)
    /\ event_i' = event_i + 1
    /\ matches' = events[event_i + 1]
    /\ DEFAULT_EPA' = calculate_default_epa(events[event_i + 1])
    /\ loop_items' = MatchOrder(events[event_i + 1])
    /\ epa_scores' = EmptyDict
    /\ pc' = "match"
    /\ UNCHANGED <<events, ncalls>>
    /\ UNCHANGED callVars
    /\ UNCHANGED reportVars

(* for event_code in event_codes: fetch, recompute DEFAULT_EPA, and build  *)
(* the enumerate(sorted(...)) the inner loop runs over.                    *)
StartEvent ==
    /\ pc = "event"
    /\ event_i < Len(events)
    /\ event_i' = event_i + 1
    /\ matches' = events[event_i + 1]
    /\ DEFAULT_EPA' = calculate_default_epa(events[event_i + 1])
    /\ loop_items' = MatchOrder(events[event_i + 1])
    /\ pc' = "match"
    /\ UNCHANGED <<epa_scores, events, ncalls>>
    /\ UNCHANGED callVars
    /\ UNCHANGED reportVars

ProcessNext ==
    /\ pc = "match"
    /\ loop_items # <<>>
    /\ Do_process_match(Head(loop_items)[2], Head(loop_items)[1])
    /\ loop_items' = Tail(loop_items)
    /\ UNCHANGED <<DEFAULT_EPA, events, event_i, matches, pc, ncalls>>
    /\ UNCHANGED reportVars

EndEvent ==
    /\ pc = "match"
    /\ loop_items = <<>>
    /\ pc' = IF event_i < Len(events) THEN "event" ELSE "report"
    /\ UNCHANGED <<epa_scores, DEFAULT_EPA, events, event_i, matches, loop_items, ncalls>>
    /\ UNCHANGED callVars
    /\ UNCHANGED reportVars

(* update_dataframe(), the two prints of the table, show_top_teams(10).    *)
Report ==
    /\ pc = "report"
    /\ epa_dataframe' = DataFrameOf(epa_scores)
    /\ pc' = "input"
    /\ UNCHANGED <<epa_scores, DEFAULT_EPA, events, event_i, matches, loop_items, ncalls>>
    /\ UNCHANGED <<lineup, prediction, printed>>
    /\ UNCHANGED callVars

(* The four input() calls; lineup is <<red1, red2, blue1, blue2>>.         *)
ReadInput ==
    /\ pc = "input"
    /\ \E l \in Lineups : lineup' = l
    /\ pc' = "predict"
    /\ UNCHANGED <<epa_scores, DEFAULT_EPA, events, event_i, matches, loop_items, ncalls>>
    /\ UNCHANGED <<epa_dataframe, prediction, printed>>
    /\ UNCHANGED callVars

Predict ==
    /\ pc = "predict"
    /\ prediction' = predict_match_result(epa_scores, DEFAULT_EPA, lineup[1], lineup[2], lineup[3], lineup[4])
    /\ epa_scores' = StoreAfterPredict(epa_scores, DEFAULT_EPA, lineup)
    /\ pc' = "print"
    /\ UNCHANGED <<DEFAULT_EPA, events, event_i, matches, loop_items, ncalls>>
    /\ UNCHANGED <<epa_dataframe, lineup, printed>>
    /\ UNCHANGED callVars

PrintPrediction ==
    /\ pc = "print"
    /\ printed' = PredictionLines(prediction)
    /\ pc' = "done"
    /\ UNCHANGED <<epa_scores, DEFAULT_EPA, events, event_i, matches, loop_items, ncalls>>
    /\ UNCHANGED <<epa_dataframe, lineup, prediction>>
    /\ UNCHANGED callVars

Next ==
    \/ StartEvent
    \/ ProcessNext
    \/ EndEvent
    \/ Report
    \/ ReadInput
    \/ Predict
    \/ PrintPrediction

Spec == Init /\ [][Next]_vars

-----------------------------------------------------------------------------
(* The functions called directly, in any order, at most MaxCalls times.    *)

InitCalls ==
    /\ InitCommon
    /\ events = <<>>
    /\ pc = "harness"

Call_update_epa ==
    /\ pc \in HarnessPcs
    /\ pc' = "update_epa"
    /\ ncalls < MaxCalls
    /\ ncalls' = ncalls + 1
    /\ \E a \in AlliancePairs, sp \in ScoresAndParameters :
          Do_update_epa(a[1], a[2], sp[1], sp[2], sp[3], sp[4])
    /\ UNCHANGED <<DEFAULT_EPA, match, match_number>>
    /\ UNCHANGED mainVars
    /\ UNCHANGED reportVars

Call_process_match ==
    /\ pc \in HarnessPcs
    /\ pc' = "process_match"
    /\ ncalls < MaxCalls
    /\ ncalls' = ncalls + 1
    /\ \E m \in MatchPool, n \in MatchNumbers : Do_process_match(m, n)
    /\ UNCHANGED DEFAULT_EPA
    /\ UNCHANGED mainVars
    /\ UNCHANGED reportVars

(* DEFAULT_EPA = calculate_default_epa(matches), as main does per event.   *)
Call_calculate_default_epa ==
    /\ pc \in HarnessPcs
    /\ pc' = "calculate_default_epa"
    /\ ncalls < MaxCalls
    /\ ncalls' = ncalls + 1
    /\ \E ms \in BaselineInputs : DEFAULT_EPA' = calculate_default_epa(ms)
    /\ UNCHANGED epa_scores
    /\ UNCHANGED mainVars
    /\ UNCHANGED callVars
    /\ UNCHANGED reportVars

Call_predict_match_result ==
    /\ pc \in HarnessPcs
    /\ pc' = "predict_match_result"
    /\ ncalls < MaxCalls
    /\ ncalls' = ncalls + 1
    /\ \E l \in Lineups :
          /\ lineup' = l
          /\ prediction' = predict_match_result(epa_scores, DEFAULT_EPA, l[1], l[2], l[3], l[4])
          /\ epa_scores' = StoreAfterPredict(epa_scores, DEFAULT_EPA, l)
    /\ UNCHANGED <<DEFAULT_EPA, epa_dataframe, printed>>
    /\ UNCHANGED mainVars
    /\ UNCHANGED callVars

NextCalls ==
    \/ Call_update_epa
    \/ Call_process_match
    \/ Call_calculate_default_epa
    \/ Call_predict_match_result

SpecCalls == InitCalls /\ [][NextCalls]_vars

-----------------------------------------------------------------------------
(* The parameter schedule evaluated at every match number up to MaxN.      *)

Call_schedule ==
    /\ pc \in HarnessPcs
    /\ pc' = "schedule"
    /\ \E n \in 1..MaxN :
          /\ match_number' = n
          /\ k_factor' = calculate_k_factor(n)
          /\ margin' = calculate_margin_parameter(n)
    /\ UNCHANGED <<epa_scores, DEFAULT_EPA, ncalls>>
    /\ UNCHANGED <<match, red_team_ids, blue_team_ids, red_actual_score, blue_actual_score>>
    /\ UNCHANGED mainVars
    /\ UNCHANGED reportVars

NextSchedule == Call_schedule

SpecSchedule == InitCalls /\ [][NextSchedule]_vars

-----------------------------------------------------------------------------
(* Properties of the rating update (checked under SpecCalls).              *)

Range(f) == {f[i] : i \in DOMAIN f}

(* A step that is a call of update_epa, directly or through process_match. *)
IsUpdateCall == ncalls' = ncalls + 1 /\ pc' \in {"update_epa", "process_match"}

(* Sum of the pre-call ratings of a list of teams.                         *)
RECURSIVE SnapshotTotal(_)
SnapshotTotal(ids) ==
    IF ids = <<>> THEN R(0)
    ELSE RAdd(IF Head(ids) \in DOMAIN epa_scores THEN epa_scores[Head(ids)] ELSE DEFAULT_EPA, SnapshotTotal(Tail(ids)))

(* old + (k/(1+m)) * ((ownScore - ownTotal) - m*(otherScore - otherTotal)) *)
(* / |own|, every rating read from the store as it was before the call.    *)
SnapshotUpdate(t, own, own_score, other, other_score) ==
    LET old == IF t \in DOMAIN epa_scores THEN epa_scores[t] ELSE DEFAULT_EPA
        own_surprise == RSub(own_score, SnapshotTotal(own))
        other_surprise == RSub(other_score, SnapshotTotal(other))
        gain == RDiv(k_factor', RAdd(R(1), margin'))
    IN  RAdd(old, RDiv(RMul(gain, RSub(own_surprise, RMul(margin', other_surprise))), R(Len(own))))

MatchesSnapshotFormula ==
    /\ \A i \in 1..Len(red_team_ids') :
          epa_scores'[red_team_ids'[i]] = SnapshotUpdate(red_team_ids'[i], red_team_ids', red_actual_score', blue_team_ids', blue_actual_score')
    /\ \A i \in 1..Len(blue_team_ids') :
          epa_scores'[blue_team_ids'[i]] = SnapshotUpdate(blue_team_ids'[i], blue_team_ids', blue_actual_score', red_team_ids', red_actual_score')

(* C1: in every call of update_epa, whatever teams the two alliances list, *)
(* each listed team's new rating is the update formula evaluated on the    *)
(* store as it was before the call (no update sees a rating written        *)
(* earlier in the same call).                                              *)
C1_SnapshotForEveryMatch == [][IsUpdateCall => MatchesSnapshotFormula]_vars

FourDistinctTeams ==
    /\ Len(red_team_ids') = 2
    /\ Len(blue_team_ids') = 2
    /\ Cardinality(Range(red_team_ids') \cup Range(blue_team_ids')) = 4

IsSpecExample ==
    /\ red_team_ids' = <<1, 2>>
    /\ blue_team_ids' = <<3, 4>>
    /\ red_actual_score' = R(100)
    /\ blue_actual_score' = R(50)
    /\ k_factor' = Frac(1, 2)
    /\ margin' = R(0)
    /\ DEFAULT_EPA = R(80)
    /\ DOMAIN epa_scores \cap {1, 2, 3, 4} = {}

(* C2: for a match of four distinct teams update_epa sets every red and    *)
(* every blue team to the update formula over the pre-call ratings (an     *)
(* absent team counting as DEFAULT_EPA); with red {1,2}, blue {3,4},       *)
(* scores 100/50, k = 0.5, m = 0 and default 80, teams 1 and 2 end at 65   *)
(* and teams 3 and 4 at 52.5.                                              *)
C2_UpdateFormula ==
    [][IsUpdateCall /\ FourDistinctTeams =>
          /\ MatchesSnapshotFormula
          /\ IsSpecExample =>
                /\ epa_scores'[1] = R(65)
                /\ epa_scores'[2] = R(65)
                /\ epa_scores'[3] = Frac(105, 2)
                /\ epa_scores'[4] = Frac(105, 2)]_vars

C2_Witness ==
    /\ pc = "update_epa"
    /\ ncalls = 1
    /\ red_team_ids = <<1, 2>>
    /\ blue_team_ids = <<3, 4>>
    /\ DEFAULT_EPA = R(80)
    /\ epa_scores = [t \in {1, 2, 3, 4} |-> IF t \in {1, 2} THEN R(65) ELSE Frac(105, 2)]

(* The teams listed in the match of the call just made.                    *)
Participants ==
    IF pc' = "process_match"
    THEN {match'.teams[i].teamNumber : i \in 1..Len(match'.teams)}
    ELSE Range(red_team_ids') \cup Range(blue_team_ids')

(* C3: processing a match leaves the entry, or the absence of an entry, of *)
(* every team not listed in the match as it was.                           *)
C3_OtherTeamsUntouched ==
    [][IsUpdateCall =>
          \A t \in Teams \ Participants :
             /\ (t \in DOMAIN epa_scores') = (t \in DOMAIN epa_scores)
             /\ t \in DOMAIN epa_scores => epa_scores'[t] = epa_scores[t]]_vars

C3_Witness ==
    /\ pc = "process_match"
    /\ ncalls = 2
    /\ match = MatchD
    /\ {1, 2, 3, 4, 5} \subseteq DOMAIN epa_scores
    /\ epa_scores[1] # epa_scores[3]

-----------------------------------------------------------------------------
(* Properties of the prediction (checked under SpecCalls).                 *)

IsPredictCall == ncalls' = ncalls + 1 /\ pc' = "predict_match_result"

(* C5: predict_match_result writes neither the store nor DEFAULT_EPA (a    *)
(* team absent from the store stays absent), and a second call right after *)
(* a first with the same four teams returns the same result.               *)
C5_PredictReadsOnly ==
    [][IsPredictCall =>
          /\ epa_scores' = epa_scores
          /\ DEFAULT_EPA' = DEFAULT_EPA
          /\ (pc = "predict_match_result" /\ lineup' = lineup) => prediction' = prediction]_vars

C5_Witness ==
    /\ pc = "predict_match_result"
    /\ ncalls = 3
    /\ lineup = <<6, 2, 6, 3>>
    /\ 6 \notin DOMAIN epa_scores
    /\ 2 \in DOMAIN epa_scores
    /\ prediction.predicted_red_score # prediction.predicted_blue_score

(* C10: the winner label agrees with the win probabilities: red's summed   *)
(* rating strictly greater gives red_win_prob > blue_win_prob, blue's      *)
(* strictly greater gives blue_win_prob > red_win_prob.                    *)
C10_WinnerHasHigherProbability ==
    pc = "predict_match_result" =>
        /\ RLt(prediction.predicted_blue_score, prediction.predicted_red_score) =>
              /\ prediction.winner = "Red Alliance"
              /\ ProbLt(prediction.blue_win_prob, prediction.red_win_prob)
        /\ RLt(prediction.predicted_red_score, prediction.predicted_blue_score) =>
              ProbLt(prediction.red_win_prob, prediction.blue_win_prob)

-----------------------------------------------------------------------------
(* Properties of main (checked under Spec).                                *)

AllTeamsOf(m) == {MatchTeams(m)[i].teamNumber : i \in 1..Len(MatchTeams(m))}

(* The matches main has processed so far: every match of the events       *)
(* before the current one, and of the current event the matches the inner  *)
(* loop has already taken.                                                 *)
ProcessedMatches ==
    LET done == Len(matches) - Len(loop_items)
    IN  UNION {Range(events[e]) : e \in 1..(event_i - 1)} \cup Range(SubSeq(sorted(matches), 1, done))

(* C4: the store holds an entry for every team that appeared in an         *)
(* already-processed match of any event, and no step of the program        *)
(* removes an entry.                                                       *)
C4_EntriesKept ==
    /\ [](\A m \in ProcessedMatches : AllTeamsOf(m) \subseteq DOMAIN epa_scores)
    /\ [][DOMAIN epa_scores \subseteq DOMAIN epa_scores']_vars

C4_Witness ==
    /\ pc = "done"
    /\ Len(events[1]) > 0
    /\ Len(events[2]) > 0
    /\ AllTeamsOf(events[1][1]) \ UNION {AllTeamsOf(events[2][i]) : i \in 1..Len(events[2])} # {}
    /\ epa_dataframe # {}

RedSum == RAdd(Get(epa_scores, DEFAULT_EPA, lineup[1]), Get(epa_scores, DEFAULT_EPA, lineup[2]))
BlueSum == RAdd(Get(epa_scores, DEFAULT_EPA, lineup[3]), Get(epa_scores, DEFAULT_EPA, lineup[4]))

(* C6: the value reported as the Red score is rating(red1) + rating(red2)  *)
(* and the value reported as the Blue score is rating(blue1) +             *)
(* rating(blue2), in the result of predict_match_result and in the lines   *)
(* main prints (there to two decimals).                                    *)
C6_ReportedScoreIsAllianceSum ==
    pc = "done" =>
        /\ prediction.predicted_red_score = RedSum
        /\ prediction.predicted_blue_score = BlueSum
        /\ printed.red_score = Format2f(RedSum)
        /\ printed.blue_score = Format2f(BlueSum)

(* The store after feeding the enumerated matches one at a time.           *)
RECURSIVE RunMatches(_, _, _)
RunMatches(store, default, items) ==
    IF items = <<>> THEN store
    ELSE RunMatches(process_match(store, default, Head(items)[2], Head(items)[1]), default, Tail(items))

RunEvent(store, ms) == RunMatches(store, calculate_default_epa(ms), MatchOrder(ms))

RECURSIVE StoreAfterEvents(_)
StoreAfterEvents(k) ==
    IF k = 0 THEN EmptyDict ELSE RunEvent(StoreAfterEvents(k - 1), events[k])

IndexPermutations(n) == {p \in [1..n -> 1..n] : \A i, j \in 1..n : i # j => p[i] # p[j]}

(* The input orders of ms that keep every two matches with different start *)
(* times in their relative order (only tied matches may swap).             *)
TieReorderings(ms) ==
    {[i \in 1..Len(ms) |-> ms[p[i]]] : p \in {q \in IndexPermutations(Len(ms)) :
        \A i, j \in 1..Len(ms) :
            (i < j /\ StartTimeKey(ms[q[i]]) # StartTimeKey(ms[q[j]])) => q[i] < q[j]}}

(* The input orders of ms that keep every two matches with the same start  *)
(* time in their relative order.                                           *)
TiePreservingReorderings(ms) ==
    {[i \in 1..Len(ms) |-> ms[p[i]]] : p \in {q \in IndexPermutations(Len(ms)) :
        \A i, j \in 1..Len(ms) :
            (i < j /\ StartTimeKey(ms[q[i]]) = StartTimeKey(ms[q[j]])) => q[i] < q[j]}}

EventFinished == pc = "match" /\ loop_items = <<>>

(* C7 as stated: the event's matches supplied in another input order that  *)
(* differs only in the relative order of matches with equal start times    *)
(* give the same final ratings, from the same store and default.           *)
C7_TieOrderIrrelevant ==
    EventFinished =>
        \A other \in TieReorderings(matches) :
            RunEvent(StoreAfterEvents(event_i - 1), other) = epa_scores

(* C7 amended: the event's matches supplied in another input order in      *)
(* which the matches with equal start times keep their relative order give *)
(* the same final ratings, from the same store and default.                *)
C7_TiePreservingOrderIrrelevant ==
    EventFinished =>
        \A other \in TiePreservingReorderings(matches) :
            RunEvent(StoreAfterEvents(event_i - 1), other) = epa_scores

C7_Witness ==
    /\ EventFinished
    /\ event_i = 2
    /\ matches = <<MatchA, MatchC, MatchB>>
    /\ <<MatchC, MatchA, MatchB>> \in TiePreservingReorderings(matches)
    /\ <<MatchA, MatchB, MatchC>> \in TiePreservingReorderings(matches)
    /\ <<MatchB, MatchC, MatchA>> \notin TiePreservingReorderings(matches)

IsProcessStep == pc = "match" /\ Len(loop_items') < Len(loop_items)
IsStartStep == event_i' = event_i + 1

(* C8: in every event the matches are processed one at a time in          *)
(* ascending start-time order, a missing start time first; the match       *)
(* number given to the parameter schedule is the 1-indexed position of the *)
(* match within its own event, 1 for the first match of every event; and   *)
(* starting an event keeps the ratings written by earlier events.          *)
C8_PerEventOrderAndNumbering ==
    [][/\ IsProcessStep =>
            /\ Len(loop_items') = Len(loop_items) - 1
            /\ match_number' = Len(matches) - Len(loop_items) + 1
            /\ k_factor' = calculate_k_factor(Len(matches) - Len(loop_items) + 1)
            /\ margin' = calculate_margin_parameter(Len(matches) - Len(loop_items) + 1)
            /\ \A i \in 1..Len(loop_items') : StartTimeKey(match') <= StartTimeKey(loop_items'[i][2])
            /\ match_number' > 1 => StartTimeKey(match) <= StartTimeKey(match')
            /\ "actualStartTime" \notin DOMAIN match' \/ \A i \in 1..Len(loop_items') : "actualStartTime" \in DOMAIN loop_items'[i][2]
       /\ IsStartStep =>
            /\ epa_scores' = epa_scores
            /\ Len(loop_items') = Len(matches')
            /\ \A m \in MatchPool :
                  Cardinality({i \in 1..Len(matches') : matches'[i] = m})
                     = Cardinality({i \in 1..Len(loop_items') : loop_items'[i][2] = m})]_vars

C8_Witness ==
    /\ pc = "match"
    /\ event_i = 2
    /\ events[1] = <<MatchB>>
    /\ matches = <<MatchA, MatchD>>
    /\ match = MatchD
    /\ match_number = 1
    /\ Len(loop_items) = 1
    /\ {1, 2, 3} \subseteq DOMAIN epa_scores

-----------------------------------------------------------------------------
(* Properties of the parameter schedule (checked under SpecSchedule).      *)

(* C9: for every match number n >= 1, k(n) is in [0.3, 0.5] and m(n) in    *)
(* [0, 1]; m is non-decreasing in n with m(12) = 0 and m(36) = 1; k(n) is  *)
(* exactly 0.5 for n <= 6 and exactly 0.3 for n >= 12.                     *)
C9_ScheduleRanges ==
    /\ [](pc = "schedule" =>
            /\ RLe(Frac(3, 10), k_factor) /\ RLe(k_factor, Frac(1, 2))
            /\ RLe(R(0), margin) /\ RLe(margin, R(1))
            /\ match_number <= 6 => k_factor = Frac(1, 2)
            /\ match_number >= 12 => k_factor = Frac(3, 10)
            /\ match_number = 12 => margin = R(0)
            /\ match_number = 36 => margin = R(1))
    /\ [][(pc = "schedule" /\ pc' = "schedule" /\ match_number <= match_number') => RLe(margin, margin')]_vars

C9_Witness ==
    /\ pc = "schedule"
    /\ match_number = 36
    /\ margin = R(1)
    /\ k_factor = Frac(3, 10)

=============================================================================
